---- MODULE Spec2Model ----
(***************************************************************************)
(* Model of packages/toolkit/src/query/utils/getOrInsert.ts.               *)
(*                                                                         *)
(*   export function getOrInsert(map, key, value) {                        *)
(*     if (map.has(key)) return map.get(key) as V                          *)
(*     return map.set(key, value).get(key) as V                            *)
(*   }                                                                     *)
(*                                                                         *)
(* The mapping is the caller's Map or WeakMap.  It is modelled as the      *)
(* list of its entries in insertion order, so that "one entry per key" is  *)
(* a property of the operations and not of the representation.  A WeakMap  *)
(* may drop an entry only once its key is unreachable; a key passed to a   *)
(* call, or held by a caller who could look it up, is reachable, so the    *)
(* program never observes a reclaimed entry and reclamation is no step of  *)
(* the model.                                                              *)
(*                                                                         *)
(* Spec      every call runs to completion before the next one starts      *)
(*           (the event loop's run-to-completion semantics).               *)
(* SpecRace  the has, set and get steps of calls made by two threads are   *)
(*           interleaved freely (the multi-threaded port the design notes  *)
(*           warn about).                                                  *)
(* SpecAny   run-to-completion calls on any container with has, get and    *)
(*           set, whatever the key's type.                                 *)
(*                                                                         *)
(* The documented customisations of a base query (docs/rtk-query/usage)    *)
(* are asynchronous functions; each is modelled with one step per await:   *)
(* SpecReauth, SpecMutex, SpecDynamic and SpecQueryFn.                     *)
(***************************************************************************)
EXTENDS Naturals, Sequences, FiniteSets

VARIABLES
  kind,     \* "Map" or "WeakMap": which overload the caller's mapping selects
  map,      \* the mapping's entries, in insertion order
  log,      \* the completed calls, oldest first
  pc,       \* per thread: the step of getOrInsert it is about to take
  frame,    \* per thread: the locals of the call in progress
  inv,      \* per invocation of a base query / queryFn: its step and locals
  mutex,    \* whether the re-authorization mutex is locked
  store     \* the Redux state a base query reads (auth.projectId)

vars == <<kind, map, log, pc, frame, inv, mutex, store>>

\* The state of getOrInsert's callers, and the state of the base queries.
mapVars == <<kind, map, log, pc, frame>>
docVars == <<inv, mutex, store>>

----------------------------------------------------------------------------
\* Bounds of the model.

\* Calls of getOrInsert in one behaviour of Spec.
MaxCalls == 3

\* Calls of getOrInsert in one behaviour of SpecRace.
MaxRaceCalls == 2

----------------------------------------------------------------------------
\* Keys and values.

\* Keys of primitive type and keys of reference type.
PrimKeys == {"x", "y"}
ObjKeys == {"o1", "o2"}

\* K of the overload: `K extends object` for a WeakMap, any K for a Map.
KeysOf(kd) == IF kd = "WeakMap" THEN ObjKeys ELSE PrimKeys

\* What get answers for a key that has no entry.
Undefined == "undefined"

\* V is unconstrained: undefined is a value like any other.
Values == {"1", "2", "3", Undefined}

\* The callbacks that share the mapping, and the threads of the port.
Callers == {"c1", "c2"}
Threads == {"t1", "t2"}

Entry(k, v) == [key |-> k, value |-> v]

----------------------------------------------------------------------------
\* The mapping's three operations, as getOrInsert uses them.

\* Lookup mutated: only the newest entry is compared with the key.
Find_newestOnly(m, k) ==
  IF Len(m) > 0 /\ m[Len(m)].key = k THEN Len(m) ELSE 0

\* Position of the entry for k, 0 when there is none.
Find(m, k) ==
  IF \E i \in 1..Len(m) : m[i].key = k
    THEN CHOOSE i \in 1..Len(m) : m[i].key = k /\ \A j \in 1..(i - 1) : m[j].key # k
    ELSE 0

\* map.has(key)
MapHas(m, k) == Find(m, k) # 0

\* map.get(key)
MapGet(m, k) == IF Find(m, k) # 0 THEN m[Find(m, k)].value ELSE Undefined

\* set mutated: the new entry replaces the whole content.
MapSet_clobber(m, k, v) == <<Entry(k, v)>>

\* set mutated: an entry is added without looking for an existing one.
MapSet_append(m, k, v) == Append(m, Entry(k, v))

\* map.set(key, value): the value of an existing entry is replaced in place,
\* otherwise an entry is added at the end.
MapSet(m, k, v) ==
  IF Find(m, k) # 0
    THEN [m EXCEPT ![Find(m, k)] = Entry(k, v)]
    ELSE Append(m, Entry(k, v))

\* The keys that have an entry.
KeysIn(m) == {m[i].key : i \in 1..Len(m)}

\* The entries of key k.
EntriesOf(m, k) == {i \in 1..Len(m) : m[i].key = k}

----------------------------------------------------------------------------
\* getOrInsert as one uninterrupted call: the mapping it leaves and the value
\* it returns.

\* Mutated: the presence check is dropped, the value is always set.
getOrInsert_overwrite(m, k, v) ==
  [map |-> MapSet(m, k, v), ret |-> MapGet(MapSet(m, k, v), k)]

\* Mutated: on a miss the fallback is returned without being stored.
getOrInsert_noInsert(m, k, v) ==
  IF MapHas(m, k)
    THEN [map |-> m, ret |-> MapGet(m, k)]
    ELSE [map |-> m, ret |-> v]

\* Mutated: on a hit the fallback is returned instead of the stored value.
getOrInsert_returnArg(m, k, v) ==
  IF MapHas(m, k)
    THEN [map |-> m, ret |-> v]
    ELSE [map |-> MapSet(m, k, v), ret |-> MapGet(MapSet(m, k, v), k)]

getOrInsert(m, k, v) ==
  IF MapHas(m, k)
    THEN [map |-> m, ret |-> MapGet(m, k)]
    ELSE [map |-> MapSet(m, k, v), ret |-> MapGet(MapSet(m, k, v), k)]

----------------------------------------------------------------------------
\* Initial states.

\* The mappings a caller may hand over: empty, or already holding one entry.
InitMaps(kd) ==
  IF kd = "WeakMap"
    THEN {<<>>, <<Entry("o1", "2")>>}
    ELSE {<<>>, <<Entry("x", "3")>>, <<Entry("y", Undefined)>>}

Idle == [key |-> "x", value |-> Undefined, saw |-> FALSE, ret |-> Undefined,
         before |-> <<>>, set |-> "no", readAt |-> <<>>]

\* The asynchronous functions that may be in flight at once.
Invocations == {"i1", "i2"}

\* What a base query resolves to: { data } or { error }, the other undefined.
Result(d, e) == [data |-> d, error |-> e]
NoResult == Result(Undefined, Undefined)

\* No invocation in progress.
InvIdle == [pc |-> "idle", args |-> Undefined, result |-> NoResult,
            first |-> NoResult, refresh |-> NoResult, retry |-> NoResult,
            trace |-> <<>>, ret |-> NoResult, peers |-> {},
            projectId |-> "null"]

\* No base query is running: nothing in flight, mutex free, no project chosen.
DocIdle ==
  /\ inv = [i \in Invocations |-> InvIdle]
  /\ mutex = FALSE
  /\ store = [projectId |-> "null"]

Init ==
  /\ kind \in {"Map", "WeakMap"}
  /\ map \in InitMaps(kind)
  /\ log = <<>>
  /\ pc = [t \in Threads |-> "idle"]
  /\ frame = [t \in Threads |-> Idle]
  /\ DocIdle

----------------------------------------------------------------------------
\* Spec: run-to-completion calls.

\* Caller c calls getOrInsert(map, k, v); the call runs to completion.
GetOrInsert(c, k, v) ==
  /\ Len(log) < MaxCalls
  /\ map' = getOrInsert(map, k, v).map
  /\ log' = Append(log, [caller |-> c, key |-> k, value |-> v,
                         ret |-> getOrInsert(map, k, v).ret,
                         before |-> map, after |-> getOrInsert(map, k, v).map])
  /\ UNCHANGED <<kind, pc, frame, inv, mutex, store>>

Next == \E c \in Callers, k \in KeysOf(kind), v \in Values : GetOrInsert(c, k, v)

Spec == Init /\ [][Next]_vars

----------------------------------------------------------------------------
\* SpecRace: the steps of a call, interleaved between two threads.

Started == Len(log) + Cardinality({t \in Threads : pc[t] # "idle"})

\* Thread t enters getOrInsert(map, k, v).
Call(t, k, v) ==
  /\ pc[t] = "idle"
  /\ Started < MaxRaceCalls
  /\ frame' = [frame EXCEPT ![t] = [Idle EXCEPT !.key = k, !.value = v, !.before = map]]
  /\ pc' = [pc EXCEPT ![t] = "has"]
  /\ UNCHANGED <<kind, map, log, inv, mutex, store>>

\* if (map.has(key))
Has(t) ==
  /\ pc[t] = "has"
  /\ frame' = [frame EXCEPT ![t].saw = MapHas(map, frame[t].key)]
  /\ pc' = [pc EXCEPT ![t] = IF MapHas(map, frame[t].key) THEN "getHit" ELSE "set"]
  /\ UNCHANGED <<kind, map, log, inv, mutex, store>>

\* return map.get(key)
GetHit(t) ==
  /\ pc[t] = "getHit"
  /\ frame' = [frame EXCEPT ![t].ret = MapGet(map, frame[t].key), ![t].readAt = map]
  /\ pc' = [pc EXCEPT ![t] = "return"]
  /\ UNCHANGED <<kind, map, log, inv, mutex, store>>

\* map.set(key, value); frame.set records whether the entry was "added" or
\* an entry another thread had inserted meanwhile was "replaced".
Set(t) ==
  /\ pc[t] = "set"
  /\ map' = MapSet(map, frame[t].key, frame[t].value)
  /\ frame' = [frame EXCEPT ![t].set = IF MapHas(map, frame[t].key) THEN "replaced" ELSE "added"]
  /\ pc' = [pc EXCEPT ![t] = "getMiss"]
  /\ UNCHANGED <<kind, log, inv, mutex, store>>

\* Mutated: the call returns its argument instead of reading the entry back.
GetMiss_returnArg(t) ==
  /\ pc[t] = "getMiss"
  /\ frame' = [frame EXCEPT ![t].ret = frame[t].value, ![t].readAt = map]
  /\ pc' = [pc EXCEPT ![t] = "return"]
  /\ UNCHANGED <<kind, map, log, inv, mutex, store>>

\* return (...).get(key)
GetMiss(t) ==
  /\ pc[t] = "getMiss"
  /\ frame' = [frame EXCEPT ![t].ret = MapGet(map, frame[t].key), ![t].readAt = map]
  /\ pc' = [pc EXCEPT ![t] = "return"]
  /\ UNCHANGED <<kind, map, log, inv, mutex, store>>

\* The call returns to thread t's caller.
Return(t) ==
  /\ pc[t] = "return"
  /\ log' = Append(log, [caller |-> t, key |-> frame[t].key, value |-> frame[t].value,
                         ret |-> frame[t].ret, before |-> frame[t].before,
                         after |-> map])
  /\ pc' = [pc EXCEPT ![t] = "idle"]
  /\ frame' = [frame EXCEPT ![t] = Idle]
  /\ UNCHANGED <<kind, map, inv, mutex, store>>

NextRace ==
  \E t \in Threads :
    \/ \E k \in KeysOf(kind), v \in Values : Call(t, k, v)
    \/ Has(t)
    \/ GetHit(t)
    \/ Set(t)
    \/ GetMiss(t)
    \/ Return(t)

SpecRace == Init /\ [][NextRace]_vars

----------------------------------------------------------------------------
\* Properties of run-to-completion calls (Spec).

\* A completed call found the key present / absent.
Hit(c) == MapHas(c.before, c.key)
Miss(c) == ~MapHas(c.before, c.key)

\* C1 -- No overwrite: a call on a key already associated with v0 returns v0
\* and leaves the association v0, whatever fallback v1 it was given; the call
\* leaves no entry holding v1 that was not there before.
C1_NoOverwrite ==
  \A i \in DOMAIN log :
    LET c == log[i] IN
      Hit(c) =>
        /\ c.ret = MapGet(c.before, c.key)
        /\ MapHas(c.after, c.key)
        /\ MapGet(c.after, c.key) = MapGet(c.before, c.key)
        /\ \A j \in 1..Len(c.after) :
             c.after[j].value = c.value =>
               j <= Len(c.before) /\ c.before[j] = c.after[j]

\* A call hit a key whose stored value differs from the fallback it passed.
C1_Witness ==
  \E i \in DOMAIN log :
    /\ Hit(log[i])
    /\ log[i].value # MapGet(log[i].before, log[i].key)
    /\ log[i].value # Undefined

\* C2 -- Miss path: a call on an absent key associates the key with the
\* fallback value and returns the fallback value.
C2_MissInstallsFallback ==
  \A i \in DOMAIN log :
    LET c == log[i] IN
      Miss(c) =>
        /\ MapHas(c.after, c.key)
        /\ MapGet(c.after, c.key) = c.value
        /\ c.ret = c.value

\* A call missed on a mapping that already held another key.
C2_Witness ==
  \E i \in DOMAIN log :
    /\ Miss(log[i])
    /\ Len(log[i].before) > 0
    /\ log[i].value = "1"

\* C3 -- Return matches stored: after every call, hit or miss, the mapping has
\* an association for the key and the returned value is the one retrievable
\* for the key.
C3_ReturnMatchesStored ==
  \A i \in DOMAIN log :
    /\ MapHas(log[i].after, log[i].key)
    /\ log[i].ret = MapGet(log[i].after, log[i].key)

\* Both a miss and a hit with a different fallback have completed.
C3_Witness ==
  /\ \E i \in DOMAIN log : Miss(log[i])
  /\ \E i \in DOMAIN log : Hit(log[i]) /\ log[i].value # log[i].ret

\* C4 -- Presence preserved: when a call returns the mapping contains its key,
\* and every key ever passed to a call is present in the mapping.
C4_PresencePreserved ==
  /\ \A i \in DOMAIN log : log[i].key \in KeysIn(log[i].after)
  /\ \A i \in DOMAIN log : log[i].key \in KeysIn(map)

\* Two different keys, both absent at first, have been passed.
C4_Witness ==
  \E i, j \in DOMAIN log :
    /\ i < j
    /\ log[i].key # log[j].key
    /\ ~MapHas(log[i].before, log[i].key)
    /\ ~MapHas(log[i].before, log[j].key)

\* C5 -- Idempotent insert: a call that inserts v for an absent key, followed
\* by a call on the same key with a different value v2, returns v both times
\* and the mapping then holds v, not v2, for the key.
C5_IdempotentInsert ==
  \A i \in DOMAIN log :
    (i + 1 \in DOMAIN log /\ Miss(log[i]) /\ log[i + 1].key = log[i].key
       /\ log[i + 1].value # log[i].value) =>
      /\ log[i].ret = log[i].value
      /\ log[i + 1].ret = log[i].value
      /\ MapGet(log[i + 1].after, log[i].key) = log[i].value
      /\ MapGet(log[i + 1].after, log[i].key) # log[i + 1].value

\* An insert followed at once by a call on the same key with another value.
C5_Witness ==
  \E i \in DOMAIN log :
    /\ i + 1 \in DOMAIN log
    /\ Miss(log[i])
    /\ log[i + 1].key = log[i].key
    /\ log[i + 1].value # log[i].value

\* The mapping the caller handed over.
InitialMap == IF log = <<>> THEN map ELSE log[1].before

\* The first completed call that used key k.
FirstCall(k) == CHOOSE i \in DOMAIN log : log[i].key = k /\ \A j \in 1..(i - 1) : log[j].key # k

\* C6 -- First writer wins: starting from an empty mapping, after any sequence
\* of calls the mapping holds exactly the keys that were passed, each with the
\* value given by the first call that used the key, and every call on the key
\* returned that value.
C6_FirstWriterWins ==
  InitialMap = <<>> =>
    /\ KeysIn(map) = {log[i].key : i \in DOMAIN log}
    /\ \A k \in KeysIn(map) : MapGet(map, k) = log[FirstCall(k)].value
    /\ \A i \in DOMAIN log : log[i].ret = log[FirstCall(log[i].key)].value

\* The scenario x->1, x->2, y->3 on an empty mapping.
C6_Witness ==
  /\ InitialMap = <<>>
  /\ Len(log) = 3
  /\ <<log[1].key, log[1].value, log[1].ret>> = <<"x", "1", "1">>
  /\ <<log[2].key, log[2].value, log[2].ret>> = <<"x", "2", "1">>
  /\ <<log[3].key, log[3].value, log[3].ret>> = <<"y", "3", "3">>
  /\ map = <<Entry("x", "1"), Entry("y", "3")>>

\* C7 -- Frame: a call changes no association of another key, removes no
\* entry, and adds the one entry key->value exactly when the key was absent.
C7_Frame ==
  \A i \in DOMAIN log :
    LET c == log[i] IN
      /\ \A k \in KeysIn(c.before) \ {c.key} :
           MapHas(c.after, k) /\ MapGet(c.after, k) = MapGet(c.before, k)
      /\ KeysIn(c.before) \subseteq KeysIn(c.after)
      /\ KeysIn(c.after) = KeysIn(c.before) \cup {c.key}
      /\ Len(c.after) = Len(c.before) + (IF Hit(c) THEN 0 ELSE 1)
      /\ c.after = IF Hit(c) THEN c.before ELSE c.before \o <<Entry(c.key, c.value)>>

\* A miss on a mapping that held another key, and a hit.
C7_Witness ==
  /\ \E i \in DOMAIN log : Miss(log[i]) /\ KeysIn(log[i].before) # {}
  /\ \E i \in DOMAIN log : Hit(log[i]) /\ Cardinality(KeysIn(log[i].before)) = 2

C9_AtomicCallsAgree ==
  /\ \A i, j \in DOMAIN log : log[i].key = log[j].key => log[i].ret = log[j].ret
  /\ \A i \in DOMAIN log :
       Hit(log[i]) => log[i].after = log[i].before /\ log[i].ret = MapGet(log[i].before, log[i].key)

\* Two callers passed different values for the same absent key; the second
\* caller's value lost.
C9_Witness ==
  \E i, j \in DOMAIN log :
    /\ i < j
    /\ log[i].caller = "c2" /\ log[j].caller = "c1"
    /\ log[i].key = log[j].key
    /\ Miss(log[i])
    /\ log[i].value # log[j].value
    /\ log[j].ret = log[i].value

----------------------------------------------------------------------------
\* Properties of interleaved steps (SpecRace).

\* Threads t and u are in calls on the same key, both found it absent and
\* both have executed their set.
BothInserted(t, u) ==
  /\ t # u
  /\ pc[t] \in {"getMiss", "return"}
  /\ pc[u] \in {"getMiss", "return"}
  /\ frame[t].key = frame[u].key
  /\ ~frame[t].saw
  /\ ~frame[u].saw

\* C10 as stated -- whenever two threads both observed absence of the same key
\* and both inserted, some key of the mapping has more than one entry.
C10_RaceDuplicatesEntry ==
  \A t, u \in Threads :
    BothInserted(t, u) => \E k \in KeysIn(map) : Cardinality(EntriesOf(map, k)) > 1

\* C10 amended -- whenever two threads both observed absence of the same key
\* and both inserted, one set added the entry and the other replaced its
\* value: the mapping holds exactly one entry for the key, with the value of
\* the thread whose set came second.
C10_RaceOverwritesEntry ==
  \A t, u \in Threads :
    BothInserted(t, u) =>
      /\ {frame[t].set, frame[u].set} = {"added", "replaced"}
      /\ Cardinality(EntriesOf(map, frame[t].key)) = 1
      /\ \A w \in {t, u} : frame[w].set = "replaced" => MapGet(map, frame[t].key) = frame[w].value
      /\ \A k \in KeysIn(map) : Cardinality(EntriesOf(map, k)) = 1

\* Both threads inserted different values for the same absent key and are
\* about to return different values: the first insert was overwritten.
C10_Witness ==
  \E t, u \in Threads :
    /\ BothInserted(t, u)
    /\ pc[t] = "return" /\ pc[u] = "return"
    /\ frame[t].set = "added" /\ frame[u].set = "replaced"
    /\ frame[t].value # frame[u].value
    /\ frame[t].ret = frame[t].value
    /\ frame[u].ret = frame[u].value
    /\ MapGet(map, frame[t].key) # frame[t].ret

----------------------------------------------------------------------------
\* SpecAny: run-to-completion calls on any container that has has, get and
\* set, with keys of any type (what a caller outside the type checker, or a
\* subclass of Map, can pass).

\* Calls of getOrInsert in one behaviour of SpecAny.
MaxAnyCalls == 2

\* "Normalizing" is a container whose set stores a normalized form of the value.
AnyKinds == {"Map", "WeakMap", "Normalizing"}
AnyKeys == PrimKeys \cup ObjKeys
AnyValues == {"1", "2", Undefined, "null", "0"}

\* The values JavaScript treats as false in a condition.
Falsy == {Undefined, "null", "0"}

\* A WeakMap accepts only keys of reference type.
CanBeHeldWeakly(k) == k \in ObjKeys

\* What set stores for v: the normalizing container keeps null for undefined.
Normalize(kd, v) == IF kd = "Normalizing" /\ v = Undefined THEN "null" ELSE v

\* set mutated: a WeakMap takes any key, as a Map does.
SetOn_unchecked(kd, m, k, v) ==
  [map |-> MapSet(m, k, Normalize(kd, v)), threw |-> "none"]

\* map.set(key, value) on a container of kind kd: a WeakMap throws a
\* TypeError for a key that is not an object and stores nothing.
SetOn(kd, m, k, v) ==
  IF kd = "WeakMap" /\ ~CanBeHeldWeakly(k)
    THEN [map |-> m, threw |-> "TypeError"]
    ELSE [map |-> MapSet(m, k, Normalize(kd, v)), threw |-> "none"]

\* Mutated: on a miss the argument is returned instead of the value read back.
getOrInsertOn_returnInput(kd, m, k, v) ==
  IF MapHas(m, k)
    THEN [map |-> m, returned |-> TRUE, ret |-> MapGet(m, k), threw |-> "none"]
    ELSE IF SetOn(kd, m, k, v).threw # "none"
      THEN [map |-> SetOn(kd, m, k, v).map, returned |-> FALSE, ret |-> Undefined,
            threw |-> SetOn(kd, m, k, v).threw]
      ELSE [map |-> SetOn(kd, m, k, v).map, returned |-> TRUE, ret |-> v,
            threw |-> "none"]

\* Mutated: presence is decided by the stored value, `if (map.get(key))`.
getOrInsertOn_truthyCheck(kd, m, k, v) ==
  IF MapGet(m, k) \notin Falsy
    THEN [map |-> m, returned |-> TRUE, ret |-> MapGet(m, k), threw |-> "none"]
    ELSE IF SetOn(kd, m, k, v).threw # "none"
      THEN [map |-> SetOn(kd, m, k, v).map, returned |-> FALSE, ret |-> Undefined,
            threw |-> SetOn(kd, m, k, v).threw]
      ELSE [map |-> SetOn(kd, m, k, v).map, returned |-> TRUE,
            ret |-> MapGet(SetOn(kd, m, k, v).map, k), threw |-> "none"]

\* getOrInsert on a container of kind kd: the container it leaves, whether it
\* returned, the value it returned and the error it threw.
getOrInsertOn(kd, m, k, v) ==
  IF MapHas(m, k)
    THEN [map |-> m, returned |-> TRUE, ret |-> MapGet(m, k), threw |-> "none"]
    ELSE IF SetOn(kd, m, k, v).threw # "none"
      THEN [map |-> SetOn(kd, m, k, v).map, returned |-> FALSE, ret |-> Undefined,
            threw |-> SetOn(kd, m, k, v).threw]
      ELSE [map |-> SetOn(kd, m, k, v).map, returned |-> TRUE,
            ret |-> MapGet(SetOn(kd, m, k, v).map, k), threw |-> "none"]

\* The containers a caller may hand over.
AnyInitMaps(kd) ==
  CASE kd = "WeakMap" -> {<<>>, <<Entry("o1", "2")>>, <<Entry("o2", Undefined)>>}
    [] kd = "Normalizing" -> {<<>>, <<Entry("x", "null")>>}
    [] OTHER -> {<<>>, <<Entry("y", Undefined)>>, <<Entry("x", "0"), Entry("o1", "null")>>}

InitAny ==
  /\ kind \in AnyKinds
  /\ map \in AnyInitMaps(kind)
  /\ log = <<>>
  /\ pc = [t \in Threads |-> "idle"]
  /\ frame = [t \in Threads |-> Idle]
  /\ DocIdle

\* Caller c calls getOrInsert(map, k, v); the call returns or throws.
GetOrInsertOn(c, k, v) ==
  /\ Len(log) < MaxAnyCalls
  /\ map' = getOrInsertOn(kind, map, k, v).map
  /\ log' = Append(log, [caller |-> c, key |-> k, value |-> v,
                         returned |-> getOrInsertOn(kind, map, k, v).returned,
                         ret |-> getOrInsertOn(kind, map, k, v).ret,
                         threw |-> getOrInsertOn(kind, map, k, v).threw,
                         before |-> map, after |-> getOrInsertOn(kind, map, k, v).map])
  /\ UNCHANGED <<kind, pc, frame, inv, mutex, store>>

NextAny == \E c \in Callers, k \in AnyKeys, v \in AnyValues : GetOrInsertOn(c, k, v)

SpecAny == InitAny /\ [][NextAny]_vars

\* C11 -- Incompatible key: a call on a WeakMap with a key that is not of
\* reference type throws a TypeError, returns no value and leaves the mapping
\* as it was.
C11_WeakKeyRejected ==
  \A i \in DOMAIN log :
    (kind = "WeakMap" /\ log[i].key \notin ObjKeys) =>
      /\ ~log[i].returned
      /\ log[i].threw = "TypeError"
      /\ log[i].after = log[i].before

\* A WeakMap that held an entry was called with a primitive key, and then
\* with an object key, which it accepted.
C11_Witness ==
  /\ kind = "WeakMap"
  /\ Len(log) = 2
  /\ log[1].key \in PrimKeys /\ log[1].before # <<>> /\ log[1].threw = "TypeError"
  /\ log[2].key \in ObjKeys /\ Miss(log[2]) /\ log[2].returned

\* C16 -- Re-read after insert: on a miss the call returns the value read back
\* from the container, so for a container whose set stores the normalized form
\* n(v) it returns n(v), and the returned value is the stored one.
C16_ReturnsNormalizedValue ==
  \A i \in DOMAIN log :
    (Miss(log[i]) /\ log[i].returned) =>
      /\ log[i].ret = Normalize(kind, log[i].value)
      /\ MapHas(log[i].after, log[i].key)
      /\ log[i].ret = MapGet(log[i].after, log[i].key)

\* The normalizing container was given a value it stores in another form.
C16_Witness ==
  \E i \in DOMAIN log :
    /\ kind = "Normalizing"
    /\ Miss(log[i])
    /\ log[i].value = Undefined
    /\ log[i].ret = "null"

\* C17 -- Presence is membership: a call on a key that is present with a
\* falsy stored value (undefined, null, 0) is a hit; it returns the stored
\* value and does not replace it.
C17_FalsyStoredValueIsHit ==
  \A i \in DOMAIN log :
    (log[i].key \in KeysIn(log[i].before)
       /\ MapGet(log[i].before, log[i].key) \in Falsy) =>
      /\ log[i].returned
      /\ log[i].ret = MapGet(log[i].before, log[i].key)
      /\ log[i].after = log[i].before

\* A key stored with undefined was called with the fallback 1.
C17_Witness ==
  \E i \in DOMAIN log :
    /\ log[i].key \in KeysIn(log[i].before)
    /\ MapGet(log[i].before, log[i].key) = Undefined
    /\ log[i].value = "1"
    /\ log[i].ret = Undefined

----------------------------------------------------------------------------
\* C18 -- Return matches stored under interleaving: however the steps of two
\* calls interleave, a call that has made its final read returns the value
\* the mapping held for its key at that read.
C18_ReturnIsStoredAtRead ==
  \A t \in Threads :
    pc[t] = "return" =>
      /\ MapHas(frame[t].readAt, frame[t].key)
      /\ frame[t].ret = MapGet(frame[t].readAt, frame[t].key)

\* Thread t inserted its value, thread u replaced it before t read it back:
\* t returns u's value, which is the stored one, and not its own argument.
C18_Witness ==
  \E t, u \in Threads :
    /\ BothInserted(t, u)
    /\ pc[t] = "return"
    /\ frame[t].set = "added"
    /\ frame[u].set = "replaced"
    /\ frame[t].ret = frame[u].value
    /\ frame[t].ret # frame[t].value

----------------------------------------------------------------------------
\* Base queries of docs/rtk-query/usage/customizing-queries.  An invocation
\* is an async function; it takes one step per await, and inv[i].trace lists
\* what it did to the outside: the requests it handed to the wrapped base
\* query and the actions it dispatched.

\* Truthiness of a JavaScript value, as `if (x)` and `x ? a : b` test it.
Truthy(v) == v \notin Falsy

\* A request handed to baseQuery / rawBaseQuery / fetchWithBQ, and a dispatch.
Request(a) == <<"baseQuery", a>>
Dispatch(a) == <<"dispatch", a>>

\* The args of the endpoints that use the base query.
QueryArgs == {"posts", "user"}

\* What fetchBaseQuery resolves to for a query: data (null for an empty
\* body), or an error with its status.
QueryResults ==
  {Result("body", Undefined), Result("null", Undefined),
   Result(Undefined, "401"), Result(Undefined, "500")}

\* What it resolves to for '/refreshToken'.
RefreshResults ==
  {Result("token", Undefined), Result("null", Undefined),
   Result(Undefined, "401"), Result(Undefined, "500")}

\* result.error && result.error.status === 401
Is401(r) == r.error # Undefined /\ r.error = "401"

----------------------------------------------------------------------------
\* SpecReauth: baseQueryWithReauth, "Automatic re-authorization by extending
\* fetchBaseQuery".

\* baseQueryWithReauth(args, api, extraOptions) is called: it hands args to
\* baseQuery and awaits the result.
Reauth_Call(i, a) ==
  /\ inv[i].pc = "idle"
  /\ inv' = [inv EXCEPT ![i].args = a, ![i].pc = "query",
                        ![i].trace = <<Request(a)>>]
  /\ UNCHANGED <<mutex, store>>
  /\ UNCHANGED mapVars

\* The initial query resolves with r: a 401 sends '/refreshToken', anything
\* else is returned.
Reauth_QueryDone(i, r) ==
  /\ inv[i].pc = "query"
  /\ inv' = IF Is401(r)
              THEN [inv EXCEPT ![i].result = r, ![i].first = r, ![i].pc = "refresh",
                               ![i].trace = Append(@, Request("/refreshToken"))]
              ELSE [inv EXCEPT ![i].result = r, ![i].first = r, ![i].ret = r,
                               ![i].pc = "done"]
  /\ UNCHANGED <<mutex, store>>
  /\ UNCHANGED mapVars

\* Mutated: the query is retried before the new token is stored.
Reauth_RefreshDone_retryFirst(i, r) ==
  /\ inv[i].pc = "refresh"
  /\ inv' = IF Truthy(r.data)
              THEN [inv EXCEPT ![i].refresh = r, ![i].pc = "retry",
                               ![i].trace = @ \o <<Request(inv[i].args),
                                                   Dispatch("tokenReceived")>>]
              ELSE [inv EXCEPT ![i].refresh = r, ![i].ret = inv[i].result,
                               ![i].pc = "done",
                               ![i].trace = Append(@, Dispatch("loggedOut"))]
  /\ UNCHANGED <<mutex, store>>
  /\ UNCHANGED mapVars

\* The refresh resolves with r: with data, tokenReceived is dispatched and the
\* query retried; without, loggedOut is dispatched and the 401 returned.
Reauth_RefreshDone(i, r) ==
  /\ inv[i].pc = "refresh"
  /\ inv' = IF Truthy(r.data)
              THEN [inv EXCEPT ![i].refresh = r, ![i].pc = "retry",
                               ![i].trace = @ \o <<Dispatch("tokenReceived"),
                                                   Request(inv[i].args)>>]
              ELSE [inv EXCEPT ![i].refresh = r, ![i].ret = inv[i].result,
                               ![i].pc = "done",
                               ![i].trace = Append(@, Dispatch("loggedOut"))]
  /\ UNCHANGED <<mutex, store>>
  /\ UNCHANGED mapVars

\* The retried query resolves with r, which is returned.
Reauth_RetryDone(i, r) ==
  /\ inv[i].pc = "retry"
  /\ inv' = [inv EXCEPT ![i].result = r, ![i].retry = r, ![i].ret = r,
                        ![i].pc = "done"]
  /\ UNCHANGED <<mutex, store>>
  /\ UNCHANGED mapVars

InitDoc ==
  /\ kind = "Map"
  /\ map = <<>>
  /\ log = <<>>
  /\ pc = [t \in Threads |-> "idle"]
  /\ frame = [t \in Threads |-> Idle]
  /\ DocIdle

NextReauth ==
  \E i \in Invocations :
    \/ \E a \in QueryArgs : Reauth_Call(i, a)
    \/ \E r \in QueryResults : Reauth_QueryDone(i, r)
    \/ \E r \in RefreshResults : Reauth_RefreshDone(i, r)
    \/ \E r \in QueryResults : Reauth_RetryDone(i, r)

SpecReauth == InitDoc /\ [][NextReauth]_vars

\* The '/refreshToken' requests of a trace.
Refreshes(tr) == {n \in DOMAIN tr : tr[n] = Request("/refreshToken")}

\* C13 -- Re-authorization flow: an invocation whose initial query failed with
\* 401 sent exactly one '/refreshToken', right after it; if the refresh had
\* (truthy) data it dispatched tokenReceived, then retried the query, and
\* returned the retry's result; otherwise it dispatched loggedOut, did not
\* retry and returned the 401.  An invocation whose initial result was not a
\* 401 sent no refresh, dispatched nothing and returned the initial result.
C13_ReauthFlow ==
  \A i \in Invocations :
    LET c == inv[i] IN
      c.pc = "done" =>
        /\ Is401(c.first) =>
             /\ Cardinality(Refreshes(c.trace)) = 1
             /\ c.trace[2] = Request("/refreshToken")
             /\ Truthy(c.refresh.data) =>
                  /\ c.trace = <<Request(c.args), Request("/refreshToken"),
                                 Dispatch("tokenReceived"), Request(c.args)>>
                  /\ c.ret = c.retry
             /\ ~Truthy(c.refresh.data) =>
                  /\ c.trace = <<Request(c.args), Request("/refreshToken"),
                                 Dispatch("loggedOut")>>
                  /\ c.ret = c.first
        /\ ~Is401(c.first) =>
             /\ c.trace = <<Request(c.args)>>
             /\ c.ret = c.first

\* One invocation refreshed, retried and returned the retry's data; the other
\* got no data from the refresh and returned its 401.
C13_Witness ==
  \E i, j \in Invocations :
    /\ inv[i].pc = "done" /\ inv[j].pc = "done"
    /\ Is401(inv[i].first) /\ inv[i].refresh.data = "token"
    /\ inv[i].ret = Result("body", Undefined)
    /\ Is401(inv[j].first) /\ inv[j].refresh.error = "500"
    /\ inv[j].ret = Result(Undefined, "401")

----------------------------------------------------------------------------
\* SpecMutex: baseQueryWithReauth, "Preventing multiple unauthorized errors".
\* The mutex is async-mutex's: isLocked() reads it, acquire() on a free mutex
\* locks it at once, waitForUnlock() resumes the caller once it is free.

\* baseQueryWithReauth(args, api, extraOptions) is called and awaits
\* mutex.waitForUnlock().
Mutex_Call(i, a) ==
  /\ inv[i].pc = "idle"
  /\ inv' = [inv EXCEPT ![i].args = a, ![i].pc = "waitForUnlock"]
  /\ UNCHANGED <<mutex, store>>
  /\ UNCHANGED mapVars

\* The mutex is free: the invocation hands args to baseQuery.
Mutex_SendQuery(i) ==
  /\ inv[i].pc = "waitForUnlock"
  /\ ~mutex
  /\ inv' = [inv EXCEPT ![i].pc = "query", ![i].trace = <<Request(inv[i].args)>>]
  /\ UNCHANGED <<mutex, store>>
  /\ UNCHANGED mapVars

\* The initial query resolves with r.  On a 401 the invocation acquires the
\* mutex if it is free (peers: the invocations whose initial query is pending
\* at that moment), and waits for it to unlock otherwise.
Mutex_QueryDone(i, r) ==
  /\ inv[i].pc = "query"
  /\ IF Is401(r)
       THEN IF ~mutex
              THEN /\ mutex' = TRUE
                   /\ inv' = [inv EXCEPT ![i].result = r, ![i].first = r,
                                ![i].pc = "acquire",
                                ![i].peers = {j \in Invocations \ {i} : inv[j].pc = "query"}]
              ELSE /\ mutex' = mutex
                   /\ inv' = [inv EXCEPT ![i].result = r, ![i].first = r,
                                ![i].pc = "waitForRefresh"]
       ELSE /\ mutex' = mutex
            /\ inv' = [inv EXCEPT ![i].result = r, ![i].first = r, ![i].ret = r,
                         ![i].pc = "done"]
  /\ UNCHANGED store
  /\ UNCHANGED mapVars

\* acquire() has resolved: the holder sends '/refreshToken'.
Mutex_SendRefresh(i) ==
  /\ inv[i].pc = "acquire"
  /\ inv' = [inv EXCEPT ![i].pc = "refresh",
                        ![i].trace = Append(@, Request("/refreshToken"))]
  /\ UNCHANGED <<mutex, store>>
  /\ UNCHANGED mapVars

\* The refresh resolves with r: with data, tokenReceived is dispatched and the
\* query retried; without, loggedOut is dispatched, the mutex released and the
\* 401 returned.
Mutex_RefreshDone(i, r) ==
  /\ inv[i].pc = "refresh"
  /\ IF Truthy(r.data)
       THEN /\ inv' = [inv EXCEPT ![i].refresh = r, ![i].pc = "retry",
                         ![i].trace = @ \o <<Dispatch("tokenReceived"),
                                             Request(inv[i].args)>>]
            /\ mutex' = mutex
       ELSE /\ inv' = [inv EXCEPT ![i].refresh = r, ![i].ret = inv[i].result,
                         ![i].pc = "done",
                         ![i].trace = Append(@, Dispatch("loggedOut"))]
            /\ mutex' = FALSE
  /\ UNCHANGED store
  /\ UNCHANGED mapVars

\* The holder's retry resolves with r: the mutex is released, r returned.
Mutex_RetryDone(i, r) ==
  /\ inv[i].pc = "retry"
  /\ inv' = [inv EXCEPT ![i].result = r, ![i].retry = r, ![i].ret = r,
                        ![i].pc = "done"]
  /\ mutex' = FALSE
  /\ UNCHANGED store
  /\ UNCHANGED mapVars

\* The mutex another invocation held is free again: the waiting invocation
\* retries its query.
Mutex_SendRetry(i) ==
  /\ inv[i].pc = "waitForRefresh"
  /\ ~mutex
  /\ inv' = [inv EXCEPT ![i].pc = "retryAfterWait",
                        ![i].trace = Append(@, Request(inv[i].args))]
  /\ UNCHANGED <<mutex, store>>
  /\ UNCHANGED mapVars

\* The waiting invocation's retry resolves with r, which is returned.
Mutex_WaitRetryDone(i, r) ==
  /\ inv[i].pc = "retryAfterWait"
  /\ inv' = [inv EXCEPT ![i].result = r, ![i].retry = r, ![i].ret = r,
                        ![i].pc = "done"]
  /\ UNCHANGED <<mutex, store>>
  /\ UNCHANGED mapVars

NextMutex ==
  \E i \in Invocations :
    \/ \E a \in QueryArgs : Mutex_Call(i, a)
    \/ Mutex_SendQuery(i)
    \/ \E r \in QueryResults : Mutex_QueryDone(i, r)
    \/ Mutex_SendRefresh(i)
    \/ \E r \in RefreshResults : Mutex_RefreshDone(i, r)
    \/ \E r \in QueryResults : Mutex_RetryDone(i, r)
    \/ Mutex_SendRetry(i)
    \/ \E r \in QueryResults : Mutex_WaitRetryDone(i, r)

SpecMutex == InitDoc /\ [][NextMutex]_vars

\* C12 -- One refresh for concurrent 401s: when an invocation refreshes, no
\* invocation whose initial query was pending at that time, and then failed
\* with 401 too, sends a '/refreshToken' of its own.
C12_OnlyOneRefresh ==
  \A i, j \in Invocations :
    (j \in inv[i].peers /\ Is401(inv[j].first)) => Refreshes(inv[j].trace) = {}

----------------------------------------------------------------------------
\* SpecDynamic: dynamicBaseQuery, "Constructing a Dynamic Base URL using
\* Redux state".

\* RootState['auth']['projectId']: number | null.
ProjectIds == {"null", "0", "7", "500"}

\* args: string | FetchArgs.  A string has no fields but its url.
StringArgs(u) == [isString |-> TRUE, url |-> u, method |-> Undefined]
FetchArgs(u, m) == [isString |-> FALSE, url |-> u, method |-> m]
DynamicArgs == {StringArgs("posts"), FetchArgs("posts", "GET"), FetchArgs("user", "POST")}

\* `project/${projectId}/${urlEnd}`
AdjustedUrl(p, a) == "project/" \o p \o "/" \o a.url

\* typeof args === 'string' ? adjustedUrl : { ...args, url: adjustedUrl }
AdjustedArgs(p, a) == [a EXCEPT !.url = AdjustedUrl(p, a)]

\* { error: { status: 400, statusText: 'Bad Request', data: 'No project ID received' } }
BadRequest == Result(Undefined, "400")

\* What rawBaseQuery resolves to.
RawResults == {Result("body", Undefined), Result(Undefined, "404")}

\* A dispatch elsewhere changes auth.projectId.
Store_SetProject(p) ==
  /\ store.projectId # p
  /\ store' = [store EXCEPT !.projectId = p]
  /\ UNCHANGED <<inv, mutex>>
  /\ UNCHANGED mapVars

\* dynamicBaseQuery(args, api, extraOptions) is called: it selects the
\* project id from api.getState(); `if (!projectId)` returns the 400 error,
\* otherwise the adjusted args are handed to rawBaseQuery.
Dynamic_Call(i, a) ==
  /\ inv[i].pc = "idle"
  /\ inv' = IF ~Truthy(store.projectId)
              THEN [inv EXCEPT ![i].args = a, ![i].projectId = store.projectId,
                               ![i].ret = BadRequest, ![i].pc = "done"]
              ELSE [inv EXCEPT ![i].args = a, ![i].projectId = store.projectId,
                               ![i].trace = <<Request(AdjustedArgs(store.projectId, a))>>,
                               ![i].pc = "raw"]
  /\ UNCHANGED <<mutex, store>>
  /\ UNCHANGED mapVars

\* rawBaseQuery resolves with r, which is returned.
Dynamic_RawDone(i, r) ==
  /\ inv[i].pc = "raw"
  /\ inv' = [inv EXCEPT ![i].result = r, ![i].ret = r, ![i].pc = "done"]
  /\ UNCHANGED <<mutex, store>>
  /\ UNCHANGED mapVars

NextDynamic ==
  \/ \E p \in ProjectIds : Store_SetProject(p)
  \/ \E i \in Invocations, a \in DynamicArgs : Dynamic_Call(i, a)
  \/ \E i \in Invocations, r \in RawResults : Dynamic_RawDone(i, r)

SpecDynamic == InitDoc /\ [][NextDynamic]_vars

\* C14 -- Missing project data: an invocation that selected no project id
\* (null) returns the status 400 error and never calls rawBaseQuery; one that
\* selected a project id (any number) calls rawBaseQuery exactly once, with
\* the url rewritten to project/<projectId>/<url> and the other args as given.
C14_DynamicBaseQuery ==
  \A i \in Invocations :
    inv[i].pc \in {"raw", "done"} =>
      /\ inv[i].projectId = "null" =>
           (inv[i].pc = "done" /\ inv[i].ret = BadRequest /\ inv[i].trace = <<>>)
      /\ inv[i].projectId # "null" =>
           /\ Len(inv[i].trace) = 1
           /\ inv[i].trace[1] =
                Request([isString |-> inv[i].args.isString,
                         url |-> "project/" \o inv[i].projectId \o "/" \o inv[i].args.url,
                         method |-> inv[i].args.method])

----------------------------------------------------------------------------
\* SpecQueryFn: getRandomUserPosts.queryFn, "Performing multiple requests with
\* a single query".

\* What fetchWithBQ('users/random') resolves to: a user, an empty body, an error.
RandomResults ==
  {Result("1", Undefined), Result("2", Undefined), Result("null", Undefined),
   Result(Undefined, "404"), Result(Undefined, "500")}

\* What fetchWithBQ(`user/${user.id}/posts`) resolves to.
PostsResults ==
  {Result("posts", Undefined), Result("null", Undefined), Result("0", Undefined),
   Result(Undefined, "404"), Result(Undefined, "500")}

\* The object a queryFn returns: { data: d } or { error: e }.
ReturnData(d) == [has |-> "data", data |-> d, error |-> Undefined]
ReturnError(e) == [has |-> "error", data |-> Undefined, error |-> e]

\* queryFn is called: it requests a random user.
QueryFn_Call(i) ==
  /\ inv[i].pc = "idle"
  /\ inv' = [inv EXCEPT ![i].pc = "random", ![i].trace = <<Request("users/random")>>]
  /\ UNCHANGED <<mutex, store>>
  /\ UNCHANGED mapVars

\* The first request resolves with r: an error is returned; otherwise
\* user.id is read (a TypeError when the body was empty and user is null) and
\* the user's posts are requested.
QueryFn_RandomDone(i, r) ==
  /\ inv[i].pc = "random"
  /\ inv' = IF Truthy(r.error)
              THEN [inv EXCEPT ![i].first = r, ![i].ret = ReturnError(r.error),
                               ![i].pc = "done"]
              ELSE IF r.data = "null"
                THEN [inv EXCEPT ![i].first = r, ![i].pc = "threw"]
                ELSE [inv EXCEPT ![i].first = r, ![i].pc = "posts",
                        ![i].trace = Append(@, Request("user/" \o r.data \o "/posts"))]
  /\ UNCHANGED <<mutex, store>>
  /\ UNCHANGED mapVars

\* The second request resolves with r:
\* return result.data ? { data: result.data } : { error: result.error }
QueryFn_PostsDone(i, r) ==
  /\ inv[i].pc = "posts"
  /\ inv' = [inv EXCEPT ![i].result = r, ![i].pc = "done",
               ![i].ret = IF Truthy(r.data) THEN ReturnData(r.data)
                                             ELSE ReturnError(r.error)]
  /\ UNCHANGED <<mutex, store>>
  /\ UNCHANGED mapVars

NextQueryFn ==
  \E i \in Invocations :
    \/ QueryFn_Call(i)
    \/ \E r \in RandomResults : QueryFn_RandomDone(i, r)
    \/ \E r \in PostsResults : QueryFn_PostsDone(i, r)

SpecQueryFn == InitDoc /\ [][NextQueryFn]_vars

\* A request succeeded: it resolved without an error.
Succeeded(r) == r.error = Undefined

\* C15 -- Result shape: whatever its two requests resolve to, a queryFn that
\* returns has returned { data } when both succeeded, and otherwise { error }
\* with the error of the request that failed; when the first request fails
\* the second is never sent.
C15_QueryFnResultShape ==
  \A i \in Invocations :
    inv[i].pc = "done" =>
      /\ ~Succeeded(inv[i].first) =>
           /\ inv[i].ret = ReturnError(inv[i].first.error)
           /\ inv[i].trace = <<Request("users/random")>>
      /\ (Succeeded(inv[i].first) /\ ~Succeeded(inv[i].result)) =>
           inv[i].ret = ReturnError(inv[i].result.error)
      /\ (Succeeded(inv[i].first) /\ Succeeded(inv[i].result)) =>
           inv[i].ret.has = "data"

====
